---- MODULE Spec2Model ----
(***************************************************************************)
(* The frame loop of src/main.cpp: the mode/pause state machine, the       *)
(* first-person player controller, the kick ability, the block physics     *)
(* and damage pass, and the edit-mode add / remove / toggle-static         *)
(* operations.                                                             *)
(*                                                                         *)
(* Every float of the program is a fixed-point integer counting            *)
(* thousandths: a length of 2.0 is 2000, a velocity of 5.0 units/s is      *)
(* 5000, a frame time of 0.25 s is 250, a health of 100.0 is 100000.       *)
(* Angles are counted in steps of 30 degrees, with sin and cos tabulated   *)
(* in thousandths.                                                         *)
(***************************************************************************)
EXTENDS Integers, Sequences, FiniteSets, TLC

\* ------------------------------------------------------------------------
\* Fixed-point arithmetic
\* ------------------------------------------------------------------------

\* One unit of a float, in thousandths.
Unit == 1000

Abs(a) == IF a < 0 THEN -a ELSE a

\* n / d rounded to the nearest integer, halves away from zero (d > 0).
RDiv(n, d) == IF n >= 0 THEN (2 * n + d) \div (2 * d)
                        ELSE -((2 * (-n) + d) \div (2 * d))

\* The product and the quotient of two fixed-point numbers.
FMul(a, b) == RDiv(a * b, Unit)
FDiv(a, b) == IF b > 0 THEN RDiv(a * Unit, b) ELSE RDiv((-a) * Unit, -b)

\* roundf: to the nearest whole number, halves away from zero.
RoundF(a) == RDiv(a, Unit) * Unit

\* The integer square root: the largest r with r * r <= n.
RECURSIVE SqrtIter(_, _, _)
SqrtIter(n, lo, hi) ==
    IF lo >= hi THEN lo
    ELSE LET mid == (lo + hi + 1) \div 2
         IN  IF mid * mid <= n THEN SqrtIter(n, mid, hi)
                               ELSE SqrtIter(n, lo, mid - 1)

ISqrt(n) == SqrtIter(n, 0, 46340)

\* ------------------------------------------------------------------------
\* raymath: Vector3
\* ------------------------------------------------------------------------

Vec(a, b, c) == [x |-> a, y |-> b, z |-> c]

Vector3Add(u, v) == Vec(u.x + v.x, u.y + v.y, u.z + v.z)

Vector3Subtract(u, v) == Vec(u.x - v.x, u.y - v.y, u.z - v.z)

Vector3Scale(v, s) == Vec(FMul(v.x, s), FMul(v.y, s), FMul(v.z, s))

\* The squared length, in millionths: comparisons of a length against a
\* constant are made on the squares, which are exact.
LengthSq(v) == v.x * v.x + v.y * v.y + v.z * v.z

Vector3Length(v) == ISqrt(LengthSq(v))

\* v divided by the length len; raymath leaves a vector of length 0 as it is.
DivideByLength(v, len) ==
    IF len = 0 THEN v
    ELSE Vec(RDiv(v.x * Unit, len), RDiv(v.y * Unit, len), RDiv(v.z * Unit, len))

Vector3Normalize(v) == DivideByLength(v, Vector3Length(v))

\* A point the pick of a degenerate ray produced has x and z infinite or NaN.
\* It is a vector with a mark in place of numbers the arithmetic could use:
\* every comparison the program makes with such a coordinate is false.
NonFinite(height) == [x |-> 0, y |-> height, z |-> 0, nonfinite |-> TRUE]

IsFinite(v) == DOMAIN v = {"x", "y", "z"}

\* Vector3Distance(u, v) < d
DistanceLess(u, v, d) ==
    IsFinite(u) /\ IsFinite(v) /\ LengthSq(Vector3Subtract(u, v)) < d * d

\* ------------------------------------------------------------------------
\* Angles: sinf and cosf on steps of 30 degrees
\* ------------------------------------------------------------------------

SinTab == <<0, 500, 866, 1000, 866, 500, 0, -500, -866, -1000, -866, -500>>

YawSteps == Len(SinTab)

Sin(a) == SinTab[(a % YawSteps) + 1]
Cos(a) == SinTab[((a + 3) % YawSteps) + 1]

\* ------------------------------------------------------------------------
\* The program's constants
\* ------------------------------------------------------------------------

screenWidth == 1280

playerSpeed == 5000
jumpForce == 8000
gravity == 20000
groundLevel == 0
playerHeight == 2000
pushForce == 3000
kickForce == 15000
kickRange == 3000
kickCooldownTime == 500
mouseSensitivity == 3
pitchLimit == 1500
editCameraSpeed == 15000
editCameraHeight == 30000
friction == 900
blockGravity == 20000
damageThreshold == 3000
damageMultiplier == 5000
blockFloor == 1000
bounce == -500
deadzone == 10
epsilon == 100
placementHeight == 1000
dynamicHealth == 100000
staticHealth == 1000000

playerSize == Vec(800, 2000, 800)
blockSize == Vec(2000, 2000, 2000)

Palette == <<"RED", "BLUE", "GREEN", "YELLOW", "PURPLE", "ORANGE", "PINK", "LIME">>

Zero3 == Vec(0, 0, 0)

\* struct Block
Block(pos, vel, col, static, h, mh) ==
    [position |-> pos, velocity |-> vel, color |-> col, isStatic |-> static,
     health |-> h, maxHealth |-> mh]

\* The six blocks main() starts with.
SeedBlocks ==
    << Block(Vec(-5000, 1000, 5000), Zero3, "RED", FALSE, 100000, 100000),
       Block(Vec(5000, 1000, 5000), Zero3, "BLUE", FALSE, 100000, 100000),
       Block(Vec(0, 1000, 10000), Zero3, "YELLOW", FALSE, 100000, 100000),
       Block(Vec(-10000, 1000, -5000), Zero3, "PURPLE", TRUE, 1000000, 1000000),
       Block(Vec(10000, 1000, -5000), Zero3, "ORANGE", FALSE, 100000, 100000),
       Block(Vec(0, 500, 3000), Zero3, "BROWN", TRUE, 1000000, 1000000) >>

\* ------------------------------------------------------------------------
\* Bounding boxes
\* ------------------------------------------------------------------------

GetBlockBoundingBox(block, size) ==
    IF ~IsFinite(block.position) THEN [min |-> block.position, max |-> block.position]
    ELSE
    [min |-> Vec(block.position.x - size.x \div 2, block.position.y - size.y \div 2,
                 block.position.z - size.z \div 2),
     max |-> Vec(block.position.x + size.x \div 2, block.position.y + size.y \div 2,
                 block.position.z + size.z \div 2)]

GetPlayerBoundingBox(position, size) ==
    [min |-> Vec(position.x - size.x \div 2, position.y - size.y,
                 position.z - size.z \div 2),
     max |-> Vec(position.x + size.x \div 2, position.y,
                 position.z + size.z \div 2)]

\* raylib's CheckCollisionBoxes: boxes that touch collide.
CheckCollisionBoxes(b1, b2) ==
    /\ IsFinite(b1.min) /\ IsFinite(b2.min)
    /\ b1.max.x >= b2.min.x /\ b1.min.x <= b2.max.x
    /\ b1.max.y >= b2.min.y /\ b1.min.y <= b2.max.y
    /\ b1.max.z >= b2.min.z /\ b1.min.z <= b2.max.z

\* raylib's CheckCollisionPointRec
CheckCollisionPointRec(p, r) ==
    /\ p.x >= r.x /\ p.x < r.x + r.width
    /\ p.y >= r.y /\ p.y < r.y + r.height

\* The four buttons of the pause menu.
ButtonBounds(top) == [x |-> screenWidth \div 2 - 150, y |-> top, width |-> 300, height |-> 60]

normalModeBtn == ButtonBounds(220)
editModeBtn == ButtonBounds(300)
continueBtn == ButtonBounds(380)
exitBtn == ButtonBounds(460)

IsButtonClicked(in, btn) == CheckCollisionPointRec(in.mouse, btn) /\ in.left

\* ------------------------------------------------------------------------
\* Player controller (Normal mode)
\* ------------------------------------------------------------------------

\* cameraYaw -= mouseDelta.x * mouseSensitivity, the mouse travel counted in
\* steps of 30 degrees; only sinf and cosf read the yaw, so it is kept
\* modulo a full turn.
TurnYaw(yaw, in) == (yaw - in.mouseDelta.x) % YawSteps

\* cameraPitch -= mouseDelta.y * mouseSensitivity, clamped to [-1.5, 1.5].
TurnPitch(pitch, in) ==
    LET p == pitch - in.mouseDelta.y * mouseSensitivity
    IN  IF p > pitchLimit THEN pitchLimit
        ELSE IF p < -pitchLimit THEN -pitchLimit ELSE p

Forward(yaw) == Vec(Sin(yaw), 0, Cos(yaw))
Right(yaw) == Vec(Cos(yaw), 0, -Sin(yaw))

AnyMoveKey(in) == in.w \/ in.s \/ in.a \/ in.d

\* The vector a held key contributes to the movement input.
Held(key, v) == IF key THEN v ELSE Zero3

\* W adds forward, S subtracts it, A adds right, D subtracts it.
MoveSum(in, forward, right) ==
    Vector3Subtract(
        Vector3Add(
            Vector3Subtract(Vector3Add(Zero3, Held(in.w, forward)), Held(in.s, forward)),
            Held(in.a, right)),
        Held(in.d, right))

\* if (Vector3Length(v) > 0) v = Vector3Normalize(v)
NormalizeIfMoving(v) == IF LengthSq(v) > 0 THEN Vector3Normalize(v) ELSE v

\* The movement input, normalized when it is not zero.
MoveDirection(in, yaw) == NormalizeIfMoving(MoveSum(in, Forward(yaw), Right(yaw)))

\* A controller that assigns the horizontal velocity only when a direction is
\* held, and so lets the player coast.
ApplyMovementWhenMoving(vel, dir) ==
    IF dir = Zero3 THEN vel
    ELSE [vel EXCEPT !.x = FMul(dir.x, playerSpeed), !.z = FMul(dir.z, playerSpeed)]

\* playerVelocity.x / .z = moveDirection * playerSpeed
ApplyMovement(vel, dir) ==
    [vel EXCEPT !.x = FMul(dir.x, playerSpeed), !.z = FMul(dir.z, playerSpeed)]

\* A jump that fires on every press.
JumpFiresOnPress(in, grounded) == in.space

\* The jump fires on a press while grounded.
JumpFires(in, grounded) == in.space /\ grounded

\* ------------------------------------------------------------------------
\* Kick ability
\* ------------------------------------------------------------------------

\* if (kickCooldown > 0) kickCooldown -= deltaTime
CooldownTick(cooldown, dt) == IF cooldown > 0 THEN cooldown - dt ELSE cooldown

\* A kick that fires on every press, whatever the cooldown.
KickFiresOnPress(in, cooldown) == in.e

\* IsKeyPressed(KEY_E) && kickCooldown <= 0
KickFires(in, cooldown) == in.e /\ cooldown <= 0

\* The horizontal vector from the player to a block.
ToBlock(block, pos) ==
    IF IsFinite(block.position) THEN [Vector3Subtract(block.position, pos) EXCEPT !.y = 0]
    ELSE block.position

\* distance <= kickRange && distance > 0
\* A range test that forgets the upper limit: distance > 0 only.
InKickRangeUnbounded(toBlock) == IsFinite(toBlock) /\ LengthSq(toBlock) > 0

InKickRange(toBlock) ==
    /\ IsFinite(toBlock)
    /\ LengthSq(toBlock) <= kickRange * kickRange /\ LengthSq(toBlock) > 0

\* forward . dirToBlock, in millionths
KickDot(forward, dir) == forward.x * dir.x + forward.z * dir.z

\* dot > 0.5f
InFront(forward, dir) == KickDot(forward, dir) > (Unit \div 2) * Unit

\* The velocity a kick gives a block in the direction dirToBlock.
KickVelocity(dirToBlock) ==
    Vec(FMul(dirToBlock.x, kickForce), FMul(kickForce, Unit \div 2),
        FMul(dirToBlock.z, kickForce))

\* A block the kick reaches: in range, in front, not static.
KickReaches(block, forward, toBlock, dirToBlock) ==
    InKickRange(toBlock) /\ InFront(forward, dirToBlock) /\ ~block.isStatic

\* A kick that adds its impulse to the velocity the block has.
KickAlongAdding(block, forward, toBlock, dirToBlock) ==
    IF KickReaches(block, forward, toBlock, dirToBlock)
    THEN [block EXCEPT !.velocity = Vector3Add(@, KickVelocity(dirToBlock))]
    ELSE block

KickAlong(block, forward, toBlock, dirToBlock) ==
    IF KickReaches(block, forward, toBlock, dirToBlock)
    THEN [block EXCEPT !.velocity = KickVelocity(dirToBlock)]
    ELSE block

KickTowards(block, forward, toBlock) ==
    KickAlong(block, forward, toBlock, Vector3Normalize(toBlock))

\* The body of the kick loop for one block.
KickBlock(block, pos, forward) == KickTowards(block, forward, ToBlock(block, pos))

KickLoop(bs, pos, forward) == [i \in DOMAIN bs |-> KickBlock(bs[i], pos, forward)]

\* ------------------------------------------------------------------------
\* Player against blocks and ground
\* ------------------------------------------------------------------------

PushAlong(block, pushDir) ==
    [block EXCEPT !.velocity.x = FMul(pushDir.x, pushForce),
                  !.velocity.z = FMul(pushDir.z, pushForce)]

PushTowards(block, pushDir) ==
    IF ~block.isStatic /\ IsFinite(pushDir) /\ LengthSq(pushDir) > 0
    THEN PushAlong(block, Vector3Normalize(pushDir))
    ELSE block

\* A block the player runs into is pushed away horizontally, unless static.
PushBlock(block, pos) == PushTowards(block, ToBlock(block, pos))

\* A hit that lets the player keep the height of the tentative position.
ResolveSliding(oldPosition, pos) == [oldPosition EXCEPT !.y = pos.y]

\* playerPosition = oldPosition: a hit puts the player back where the frame
\* found it, in all three components.
ResolvePosition(oldPosition, pos) == oldPosition

\* The collision loop from block i on: playerBox is the box at the tentative
\* position and stays that box; each hit pushes the block from where the
\* player then is, puts the player back and stops it horizontally.
RECURSIVE CollideFrom(_, _, _, _, _, _)
CollideFrom(i, playerBox, oldPosition, pos, vel, bs) ==
    IF i > Len(bs) THEN [position |-> pos, velocity |-> vel, blocks |-> bs]
    ELSE IF CheckCollisionBoxes(playerBox, GetBlockBoundingBox(bs[i], blockSize))
         THEN CollideFrom(i + 1, playerBox, oldPosition, ResolvePosition(oldPosition, pos),
                          [vel EXCEPT !.x = 0, !.z = 0],
                          [bs EXCEPT ![i] = PushBlock(bs[i], pos)])
         ELSE CollideFrom(i + 1, playerBox, oldPosition, pos, vel, bs)

\* playerPosition.y <= groundLevel + playerHeight
OnGround(pos) == pos.y <= groundLevel + playerHeight

\* ------------------------------------------------------------------------
\* Block physics
\* ------------------------------------------------------------------------

\* (impactSpeed - damageThreshold) * damageMultiplier
Damage(impactSpeed) == FMul(impactSpeed - damageThreshold, damageMultiplier)

\* Friction and gravity on the velocity of a block.
Decelerate(v, dt) ==
    Vec(FMul(v.x, friction), v.y - FMul(blockGravity, dt), FMul(v.z, friction))

\* The block moved by its velocity v over the frame.
MoveBlock(block, v, dt) ==
    [block EXCEPT !.velocity = v,
                  !.position = IF IsFinite(@) THEN Vector3Add(@, Vector3Scale(v, dt))
                               ELSE [@ EXCEPT !.y = @ + FMul(v.y, dt)]]

\* Friction, gravity and integration of one block.
Integrate(block, dt) == MoveBlock(block, Decelerate(block.velocity, dt), dt)

\* A damage rule without the threshold: every impact costs its speed times
\* the multiplier.
ImpactDamageUngated(impactSpeed) == FMul(impactSpeed, damageMultiplier)

\* The damage of an impact, none at or below the threshold.
ImpactDamage(impactSpeed) ==
    IF impactSpeed > damageThreshold THEN Damage(impactSpeed) ELSE 0

\* A ground collision that takes the damage of the landing and stops the
\* fall, but leaves the block where the integration put it.
GroundCollideUnclamped(block) ==
    IF block.position.y <= blockFloor
    THEN [block EXCEPT !.velocity.y = 0,
                       !.health = @ - ImpactDamage(Abs(block.velocity.y))]
    ELSE block

\* Ground collision of one block, with the damage of a hard landing.
GroundCollide(block) ==
    IF block.position.y <= blockFloor
    THEN [block EXCEPT !.position.y = blockFloor,
                       !.velocity.y = 0,
                       !.health = @ - ImpactDamage(Abs(block.velocity.y))]
    ELSE block

\* The damage of the collision of two blocks, from their relative velocity.
RelativeDamage(relativeVel) ==
    IF LengthSq(relativeVel) > damageThreshold * damageThreshold
    THEN Damage(Vector3Length(relativeVel)) ELSE 0

PairDamage(b1, b2) == RelativeDamage(Vector3Subtract(b1.velocity, b2.velocity))

\* Block i overlaps block j: both take the damage (a static block j takes
\* none), block i goes back to where it was and bounces.
PairHit(bs, i, j, damage, oldBlockPos) ==
    [bs EXCEPT ![i] = [@ EXCEPT !.health = @ - damage,
                                !.position = oldBlockPos,
                                !.velocity.x = FMul(@, bounce),
                                !.velocity.z = FMul(@, bounce)],
               ![j] = IF @.isStatic THEN @ ELSE [@ EXCEPT !.health = @ - damage]]

\* The inner loop of block i from block j on: box1 is the box of block i
\* after its ground collision and stays that box.
RECURSIVE PairFrom(_, _, _, _, _)
PairFrom(bs, i, j, box1, oldBlockPos) ==
    IF j > Len(bs) THEN bs
    ELSE IF i # j /\ CheckCollisionBoxes(box1, GetBlockBoundingBox(bs[j], blockSize))
         THEN PairFrom(PairHit(bs, i, j, PairDamage(bs[i], bs[j]), oldBlockPos),
                       i, j + 1, box1, oldBlockPos)
         ELSE PairFrom(bs, i, j + 1, box1, oldBlockPos)

\* No deadzone.
DeadzoneNone(block) == block

\* fabs(v) < 0.01f stops the block on that axis.
Deadzone(block) ==
    [block EXCEPT !.velocity.x = IF Abs(@) < deadzone THEN 0 ELSE @,
                  !.velocity.z = IF Abs(@) < deadzone THEN 0 ELSE @]

\* Block i, moved and landed, against every other block, then the deadzone.
SettleBlock(bs, i, moved) ==
    [PairFrom([bs EXCEPT ![i] = moved], i, 1, GetBlockBoundingBox(moved, blockSize),
              bs[i].position)
     EXCEPT ![i] = Deadzone(@)]

\* An update that does not skip static blocks.
UpdateBlockStaticToo(bs, i, dt) == SettleBlock(bs, i, GroundCollide(Integrate(bs[i], dt)))

\* The update of block i.
UpdateBlock(bs, i, dt) ==
    IF bs[i].isStatic THEN bs
    ELSE SettleBlock(bs, i, GroundCollide(Integrate(bs[i], dt)))

RECURSIVE UpdateFrom(_, _, _)
UpdateFrom(bs, i, dt) ==
    IF i > Len(bs) THEN bs ELSE UpdateFrom(UpdateBlock(bs, i, dt), i + 1, dt)

UpdateBlocks(bs, dt) == UpdateFrom(bs, 1, dt)

\* An erase that takes block i and every block after it.
EraseFrom(bs, i) == SubSeq(bs, 1, i - 1)

\* blocks.erase(blocks.begin() + i)
Erase(bs, i) == [k \in 1 .. Len(bs) - 1 |-> IF k < i THEN bs[k] ELSE bs[k + 1]]

\* The prune pass, from the last block down.
RECURSIVE PruneFrom(_, _)
PruneFrom(bs, i) ==
    IF i < 1 THEN bs
    ELSE PruneFrom(IF bs[i].health <= 0 THEN Erase(bs, i) ELSE bs, i - 1)

\* A prune pass that takes a block for destroyed at health 0 exactly.
NotAtZero(block) == block.health # 0
RemoveAtZero(bs) == SelectSeq(bs, NotAtZero)

RemoveDestroyed(bs) == PruneFrom(bs, Len(bs))

\* ------------------------------------------------------------------------
\* Edit mode
\* ------------------------------------------------------------------------

\* The edit camera's WASD motion over the ground plane.
EditMoveDir(in) ==
    Vec((IF in.d THEN Unit ELSE 0) - (IF in.a THEN Unit ELSE 0), 0,
        (IF in.s THEN Unit ELSE 0) - (IF in.w THEN Unit ELSE 0))

MoveCameraAlong(cam, moveDir, dt) ==
    [cam EXCEPT !.x = @ + FMul(FMul(moveDir.x, editCameraSpeed), dt),
                !.z = @ + FMul(FMul(moveDir.z, editCameraSpeed), dt)]

MoveCameraBy(cam, moveDir, dt) ==
    IF LengthSq(moveDir) > 0 THEN MoveCameraAlong(cam, Vector3Normalize(moveDir), dt)
    ELSE cam

MoveEditCamera(cam, in) == MoveCameraBy(cam, EditMoveDir(in), in.dt)

\* The pick: the ray from the edit camera meets the plane y = 0 at
\* t = -ray.position.y / ray.direction.y, and the point is snapped to the grid.
\* A ray with direction.y = 0 divides by zero: the point is not finite.
PickFinite(ray) == ray.y # 0

SnapAt(cam, ray, t) ==
    Vec(RoundF(cam.x + FMul(ray.x, t)), placementHeight, RoundF(cam.z + FMul(ray.z, t)))

SnappedPos(cam, ray) ==
    IF ~PickFinite(ray) THEN NonFinite(placementHeight)
    ELSE SnapAt(cam, ray, FDiv(-cam.y, ray.y))

\* Vector3Distance(block.position, snappedPos) < 0.1f
AtSnapped(block, snappedPos) == DistanceLess(block.position, snappedPos, epsilon)

BlockExists(bs, snappedPos) == \E i \in DOMAIN bs : AtSnapped(bs[i], snappedPos)

\* Add block: nothing when a block is already there.
AddBlock(bs, snappedPos, colorIndex) ==
    IF BlockExists(bs, snappedPos) THEN bs
    ELSE Append(bs, Block(snappedPos, Zero3, Palette[colorIndex + 1], FALSE,
                          dynamicHealth, dynamicHealth))

\* The blocks at the snapped position.
HitsAt(bs, snappedPos) == {i \in DOMAIN bs : AtSnapped(bs[i], snappedPos)}

Highest(hits) == IF hits = {} THEN 0 ELSE CHOOSE i \in hits : \A k \in hits : k <= i
Lowest(hits) == IF hits = {} THEN 0 ELSE CHOOSE i \in hits : \A k \in hits : i <= k

\* The last block at the snapped position, 0 when there is none.
LastAt(bs, snappedPos) == Highest(HitsAt(bs, snappedPos))

\* A scan that erases the last block when it found none.
EraseLastIfNone(bs, i) == IF i = 0 THEN SubSeq(bs, 1, Len(bs) - 1) ELSE Erase(bs, i)

EraseIfAny(bs, i) == IF i = 0 THEN bs ELSE Erase(bs, i)

\* Remove block: the scan runs from the last block down and stops at a hit.
RemoveBlock(bs, snappedPos) == EraseIfAny(bs, LastAt(bs, snappedPos))

\* The first block at the snapped position, 0 when there is none.
FirstAt(bs, snappedPos) == Lowest(HitsAt(bs, snappedPos))

\* Toggle static: the first block at the snapped position changes tier.
\* A toggle that changes the tier and the maximum and keeps the health.
ToggleBlockKeepingHealth(block) ==
    IF ~block.isStatic
    THEN [block EXCEPT !.isStatic = TRUE, !.maxHealth = staticHealth]
    ELSE [block EXCEPT !.isStatic = FALSE, !.maxHealth = dynamicHealth]

ToggleBlock(block) ==
    IF ~block.isStatic
    THEN [block EXCEPT !.isStatic = TRUE, !.maxHealth = staticHealth, !.health = staticHealth]
    ELSE [block EXCEPT !.isStatic = FALSE, !.maxHealth = dynamicHealth, !.health = dynamicHealth]

ToggleIfAny(bs, i) == IF i = 0 THEN bs ELSE [bs EXCEPT ![i] = ToggleBlock(@)]

ToggleStatic(bs, snappedPos) == ToggleIfAny(bs, FirstAt(bs, snappedPos))

\* ------------------------------------------------------------------------
\* The state of main()
\* ------------------------------------------------------------------------

VARIABLES
    running,             \* the frame loop has not ended
    isPaused,
    currentMode,         \* "NORMAL_MODE" or "WORLD_EDITING_MODE"
    cursorDisabled,      \* DisableCursor() was the last cursor call: the cursor is captured
    playerPosition,
    playerVelocity,
    isGrounded,
    cameraYaw,
    cameraPitch,
    kickCooldown,
    editCameraPosition,
    blocks,
    frames,              \* frames run so far
    sinceKick,           \* frame time run since the frame of the last kick, -1 before the first
    obs                  \* what the last frame did

vars == <<running, isPaused, currentMode, cursorDisabled, playerPosition, playerVelocity,
          isGrounded, cameraYaw, cameraPitch, kickCooldown, editCameraPosition, blocks,
          frames, sinceKick, obs>>

\* ------------------------------------------------------------------------
\* The update of one frame
\* ------------------------------------------------------------------------

\* What the collision loop of a frame did: the tentative position it tested,
\* the position the frame found the player at, the blocks before the loop,
\* and the player and the blocks after it.  An update without the loop
\* leaves NoCollision.
NoCollision ==
    [tentative |-> Zero3, old |-> Zero3, before |-> <<>>,
     position |-> Zero3, velocity |-> Zero3, blocks |-> <<>>]

Resolved(tentative, bs, hit) ==
    [tentative |-> tentative, old |-> playerPosition, before |-> bs,
     position |-> hit.position, velocity |-> hit.velocity, blocks |-> hit.blocks]

\* What an update leaves: the simulation state after it, and what it did.
Updated(yaw, pitch, pos, vel, grounded, cooldown, bs, cam, kick, jump, snappedPos) ==
    [yaw |-> yaw, pitch |-> pitch, position |-> pos, velocity |-> vel,
     grounded |-> grounded, cooldown |-> cooldown, blocks |-> bs, camera |-> cam,
     kick |-> kick, jumpFired |-> jump, snapped |-> snappedPos, unpruned |-> bs,
     collision |-> NoCollision]

\* What the kick of a frame did: whether it fired, and when it did, where the
\* player stood, the blocks before the kick loop and the blocks after it.
NoKick == [fired |-> FALSE, pos |-> Zero3, before |-> <<>>, after |-> <<>>]

KickDone(kick, kicked) ==
    IF kick THEN [fired |-> TRUE, pos |-> playerPosition, before |-> blocks, after |-> kicked]
    ELSE NoKick

\* A paused frame updates nothing.
NoUpdate(cooldown) ==
    Updated(cameraYaw, cameraPitch, playerPosition, playerVelocity, isGrounded, cooldown,
            blocks, editCameraPosition, NoKick, FALSE, Zero3)

\* No prune pass.
PruneNothing(u) == u

\* The prune pass on what the update left; the list it found is kept aside.
Prune(u) == [u EXCEPT !.blocks = RemoveDestroyed(@)]

\* The ground clamp, then the block physics and the prune pass.
Land(in, yaw, cooldown, kick, kicked, jump, grounded, hit) ==
  Prune(
   [Updated(yaw, TurnPitch(cameraPitch, in),
            IF OnGround(hit.position)
            THEN [hit.position EXCEPT !.y = groundLevel + playerHeight] ELSE hit.position,
            IF OnGround(hit.position) THEN [hit.velocity EXCEPT !.y = 0] ELSE hit.velocity,
            OnGround(hit.position) \/ grounded,
            cooldown, UpdateBlocks(hit.blocks, in.dt), editCameraPosition,
            KickDone(kick, kicked), jump, Zero3)
    EXCEPT !.collision = hit])

\* The player moved to the tentative position, against every block.
Collide(tentative, vel, bs) ==
    Resolved(tentative, bs,
             CollideFrom(1, GetPlayerBoundingBox(tentative, playerSize), playerPosition,
                         tentative, vel, bs))

\* Gravity while airborne.
Fall(vel, grounded, dt) == IF grounded THEN vel ELSE [vel EXCEPT !.y = @ - FMul(gravity, dt)]

\* Integration and collision with the velocity vel.
Move(in, yaw, cooldown, kick, kicked, jump, grounded, vel) ==
    Land(in, yaw, cooldown, kick, kicked, jump, grounded,
         Collide(Vector3Add(playerPosition, Vector3Scale(vel, in.dt)), vel, kicked))

\* The jump and the kick, each when it fires.
Act(in, yaw, cooldown, moved, jump, kick) ==
    Move(in, yaw, IF kick THEN kickCooldownTime ELSE cooldown, kick,
         IF kick THEN KickLoop(blocks, playerPosition, Forward(yaw)) ELSE blocks,
         jump, isGrounded /\ ~jump,
         Fall(IF jump THEN [moved EXCEPT !.y = jumpForce] ELSE moved,
              isGrounded /\ ~jump, in.dt))

\* The movement input with the camera turned to yaw.
Steer(in, yaw, cooldown) ==
    Act(in, yaw, cooldown, ApplyMovement(playerVelocity, MoveDirection(in, yaw)),
        JumpFires(in, isGrounded), KickFires(in, cooldown))

\* The Normal-mode update of one frame, from the cooldown after its countdown.
NormalUpdate(in, cooldown) == Steer(in, TurnYaw(cameraYaw, in), cooldown)

\* The three edit operations, each on its mouse button, in the order of the code.
AddIf(pressed, bs, snappedPos, colorIndex) ==
    IF pressed THEN AddBlock(bs, snappedPos, colorIndex) ELSE bs

RemoveIf(pressed, bs, snappedPos) == IF pressed THEN RemoveBlock(bs, snappedPos) ELSE bs

ToggleIf(pressed, bs, snappedPos) == IF pressed THEN ToggleStatic(bs, snappedPos) ELSE bs

EditOps(in, bs, snappedPos) ==
    ToggleIf(in.middle,
             RemoveIf(in.right, AddIf(in.left, bs, snappedPos, in.color), snappedPos),
             snappedPos)

\* Which of the three operations changed the list it was handed, in the
\* order the frame runs them.
EditsToggled(in, added, afterAdd, afterRemove, snappedPos) ==
    [add |-> added, remove |-> afterRemove # afterAdd,
     toggle |-> ToggleIf(in.middle, afterRemove, snappedPos) # afterRemove]

EditsRemoved(in, bs, afterAdd, snappedPos) ==
    EditsToggled(in, afterAdd # bs, afterAdd, RemoveIf(in.right, afterAdd, snappedPos),
                 snappedPos)

EditsFired(in, bs, snappedPos) ==
    EditsRemoved(in, bs, AddIf(in.left, bs, snappedPos, in.color), snappedPos)

NoEdits == [add |-> FALSE, remove |-> FALSE, toggle |-> FALSE]

EditAt(in, cooldown, cam, snappedPos) ==
    Updated(cameraYaw, cameraPitch, playerPosition, playerVelocity, isGrounded, cooldown,
            EditOps(in, blocks, snappedPos), cam, NoKick, FALSE, snappedPos)

EditFrom(in, cooldown, cam) == EditAt(in, cooldown, cam, SnappedPos(cam, in.ray))

\* The Editing-mode update of one frame.
EditUpdate(in, cooldown) == EditFrom(in, cooldown, MoveEditCamera(editCameraPosition, in))

\* Which update the frame runs, from the pause flag after the TAB toggle.
UpdateOf(paused, mode) ==
    IF paused THEN "none"
    ELSE IF mode = "NORMAL_MODE" THEN "normal" ELSE "edit"

Update(in, cooldown, update) ==
    IF update = "normal" THEN NormalUpdate(in, cooldown)
    ELSE IF update = "edit" THEN EditUpdate(in, cooldown)
    ELSE NoUpdate(cooldown)

\* ------------------------------------------------------------------------
\* The pause toggle and the pause menu
\* ------------------------------------------------------------------------

\* isPaused after the TAB toggle.
AfterTab(in) == IF in.tab THEN ~isPaused ELSE isPaused

\* The cursor after the TAB toggle: released on pausing, captured on resuming.
TabCursor(in, paused) == IF in.tab THEN ~paused ELSE cursorDisabled

\* The pause-menu button under a left click, "none" when there is none.
ClickedButton(in) ==
    IF IsButtonClicked(in, normalModeBtn) THEN "normal"
    ELSE IF IsButtonClicked(in, editModeBtn) THEN "edit"
    ELSE IF IsButtonClicked(in, continueBtn) THEN "continue"
    ELSE IF IsButtonClicked(in, exitBtn) THEN "exit"
    ELSE "none"

\* A menu that is read in every frame, paused or not.
MenuButtonAlways(in, paused) == ClickedButton(in)

\* The menu is drawn and read only in a frame that is paused after the toggle.
MenuButton(in, paused) == IF paused THEN ClickedButton(in) ELSE "none"

MenuMode(button) ==
    IF button = "normal" THEN "NORMAL_MODE"
    ELSE IF button = "edit" THEN "WORLD_EDITING_MODE"
    ELSE currentMode

MenuResumes(button) == button \in {"normal", "edit", "continue"}

\* A resuming button captures the cursor in Normal mode and releases it in
\* Editing mode.
MenuCursor(button, cursor) ==
    IF MenuResumes(button) THEN MenuMode(button) = "NORMAL_MODE" ELSE cursor

\* ------------------------------------------------------------------------
\* One iteration of the frame loop
\* ------------------------------------------------------------------------

\* What a frame leaves for the properties to read: the keys and buttons of
\* its input, the pause flag and the cooldown its update saw, what fired.
Observed(in, cooldown, paused, update, button, u) ==
    [tab |-> in.tab, paused |-> paused, update |-> update,
     click |-> ClickedButton(in), button |-> button,
     moveKey |-> AnyMoveKey(in), kickPressed |-> in.e, cooldown |-> cooldown,
     kick |-> u.kick,
     gap |-> IF sinceKick < 0 THEN -1 ELSE sinceKick + in.dt,
     jumpFired |-> u.jumpFired, jumpPressed |-> update = "normal" /\ in.space,
     left |-> in.left, right |-> in.right, middle |-> in.middle, snapped |-> u.snapped,
     edits |-> IF update = "edit" THEN EditsFired(in, blocks, u.snapped) ELSE NoEdits,
     dt |-> IF update = "normal" THEN in.dt ELSE 0,
     unpruned |-> IF update = "normal" THEN u.unpruned ELSE <<>>,
     collision |-> u.collision]

NoObs ==
    [tab |-> FALSE, paused |-> FALSE, update |-> "none",
     click |-> "none", button |-> "none",
     moveKey |-> FALSE, kickPressed |-> FALSE, cooldown |-> 0, kick |-> NoKick,
     gap |-> -1, jumpFired |-> FALSE, jumpPressed |-> FALSE,
     left |-> FALSE, right |-> FALSE, middle |-> FALSE, snapped |-> Zero3,
     edits |-> NoEdits, dt |-> 0, unpruned |-> <<>>, collision |-> NoCollision]

\* The frame's assignments: u is what the update left, button the menu
\* button clicked.
Commit(in, cooldown, paused, update, button, u) ==
    /\ cameraYaw' = u.yaw
    /\ cameraPitch' = u.pitch
    /\ playerPosition' = u.position
    /\ playerVelocity' = u.velocity
    /\ isGrounded' = u.grounded
    /\ kickCooldown' = u.cooldown
    /\ blocks' = u.blocks
    /\ editCameraPosition' = u.camera
    /\ currentMode' = MenuMode(button)
    /\ isPaused' = IF MenuResumes(button) THEN FALSE ELSE paused
    /\ cursorDisabled' = MenuCursor(button, TabCursor(in, paused))
    /\ running' = (button # "exit")
    /\ frames' = frames + 1
    /\ sinceKick' = IF u.kick.fired THEN 0
                    ELSE IF sinceKick < 0 THEN sinceKick ELSE sinceKick + in.dt
    /\ obs' = Observed(in, cooldown, paused, update, button, u)

FrameWith(in, cooldown, paused, update, button) ==
    Commit(in, cooldown, paused, update, button, Update(in, cooldown, update))

FrameFrom(in, cooldown, paused) ==
    FrameWith(in, cooldown, paused, UpdateOf(paused, currentMode), MenuButton(in, paused))

\* One iteration of the frame loop with the input in: the cooldown counts
\* down, TAB toggles the pause, the update of the mode runs unless paused,
\* the pause menu is read when paused.
Frame(in) ==
    /\ running
    /\ FrameFrom(in, CooldownTick(kickCooldown, in.dt), AfterTab(in))

\* WindowShouldClose() ends the loop before the frame.
CloseWindow ==
    /\ running
    /\ running' = FALSE
    /\ UNCHANGED <<isPaused, currentMode, cursorDisabled, playerPosition, playerVelocity,
                   isGrounded, cameraYaw, cameraPitch, kickCooldown, editCameraPosition,
                   blocks, frames, sinceKick, obs>>

\* The state when the loop is entered.
Init ==
    /\ running = TRUE
    /\ isPaused = FALSE
    /\ currentMode = "NORMAL_MODE"
    /\ cursorDisabled = TRUE
    /\ playerPosition = Vec(0, 2000, 0)
    /\ playerVelocity = Zero3
    /\ isGrounded = FALSE
    /\ cameraYaw = 0
    /\ cameraPitch = 0
    /\ kickCooldown = 0
    /\ editCameraPosition = Vec(0, editCameraHeight, 0)
    /\ blocks = SeedBlocks
    /\ frames = 0
    /\ sinceKick = -1
    /\ obs = NoObs

\* ------------------------------------------------------------------------
\* Inputs
\* ------------------------------------------------------------------------

\* A frame in which nothing is pressed, the mouse rests off the menu and the
\* pick ray points straight down.
Idle ==
    [dt |-> 250, tab |-> FALSE, w |-> FALSE, s |-> FALSE, a |-> FALSE, d |-> FALSE,
     space |-> FALSE, e |-> FALSE, mouseDelta |-> [x |-> 0, y |-> 0],
     left |-> FALSE, right |-> FALSE, middle |-> FALSE,
     mouse |-> [x |-> 0, y |-> 0], ray |-> Vec(0, -1000, 0), color |-> 0]

\* Screen points: off the menu, and on each of its four buttons.
OffMenu == [x |-> 0, y |-> 0]
OnNormal == [x |-> 640, y |-> 250]
OnEdit == [x |-> 640, y |-> 330]
OnContinue == [x |-> 640, y |-> 410]
OnExit == [x |-> 640, y |-> 490]

\* The frames a run of the main specification has.
MaxFrames == 3

\* Frame times: a tenth and a quarter of a second.
FrameTimes == {100, 250}

\* Where a left click lands, <<FALSE, OffMenu>> for no click.
Clicks == {<<FALSE, OffMenu>>} \cup
          {<<TRUE, m>> : m \in {OffMenu, OnNormal, OnEdit, OnContinue, OnExit}}

\* The inputs of the main specification: a frame time, TAB, a left click on
\* any of the menu's buttons or off it, and at most one of W, E, SPACE and a
\* turn of the mouse (one step to the right, 100 pixels down).
MainInputs ==
    {[Idle EXCEPT !.dt = dt, !.tab = t, !.left = c[1], !.mouse = c[2],
                  !.w = (k = "w"), !.e = (k = "e"), !.space = (k = "space"),
                  !.mouseDelta = IF k = "turn" THEN [x |-> 1, y |-> 100] ELSE @] :
        dt \in FrameTimes, t \in BOOLEAN, c \in Clicks,
        k \in {"none", "w", "e", "space", "turn"}}

RunFrame == \E in \in MainInputs : frames < MaxFrames /\ Frame(in)

Next == RunFrame \/ CloseWindow

Spec == Init /\ [][Next]_vars

\* ------------------------------------------------------------------------
\* The kick specification: the player has walked up to a block
\* ------------------------------------------------------------------------

\* Where the player stands: where main() starts it, 3 units in front of the
\* static seed block; south of the red seed block at 3 units exactly, at a
\* thousandth more, and at 1.5 units; and diagonally off it.
KickStandpoints ==
    {Vec(0, 2000, 0), Vec(-5000, 2000, 2000), Vec(-5000, 2000, 1999),
     Vec(-5000, 2000, 3500), Vec(-3500, 2000, 3500)}

\* The player stands at one of the standpoints, grounded and at rest, looking
\* in any of the twelve directions; the world is as main() starts it.
KickInit ==
    /\ running = TRUE
    /\ isPaused = FALSE
    /\ currentMode = "NORMAL_MODE"
    /\ cursorDisabled = TRUE
    /\ playerPosition \in KickStandpoints
    /\ playerVelocity = Zero3
    /\ isGrounded = TRUE
    /\ cameraYaw \in 0 .. YawSteps - 1
    /\ cameraPitch = 0
    /\ kickCooldown = 0
    /\ editCameraPosition = Vec(0, editCameraHeight, 0)
    /\ blocks = SeedBlocks
    /\ frames = 0
    /\ sinceKick = -1
    /\ obs = NoObs

\* The inputs of the kick specification: a frame time, E, W.
KickInputs ==
    {[Idle EXCEPT !.dt = dt, !.e = e, !.w = w] :
        dt \in FrameTimes, e \in BOOLEAN, w \in BOOLEAN}

KickFrame == \E in \in KickInputs : frames < MaxFrames /\ Frame(in)

SpecKick == KickInit /\ [][KickFrame]_vars

\* ------------------------------------------------------------------------
\* The jump specification: the player jumps in the open and against a block
\* ------------------------------------------------------------------------

\* The player stands where main() starts it or 1.5 units south of the red
\* seed block, which a step forward runs into; grounded, at rest, looking
\* along +z.
JumpInit ==
    /\ running = TRUE
    /\ isPaused = FALSE
    /\ currentMode = "NORMAL_MODE"
    /\ cursorDisabled = TRUE
    /\ playerPosition \in {Vec(0, 2000, 0), Vec(-5000, 2000, 3500)}
    /\ playerVelocity = Zero3
    /\ isGrounded = TRUE
    /\ cameraYaw = 0
    /\ cameraPitch = 0
    /\ kickCooldown = 0
    /\ editCameraPosition = Vec(0, editCameraHeight, 0)
    /\ blocks = SeedBlocks
    /\ frames = 0
    /\ sinceKick = -1
    /\ obs = NoObs

\* The inputs of the jump specification: a frame time, SPACE, W.
JumpInputs ==
    {[Idle EXCEPT !.dt = dt, !.space = j, !.w = w] :
        dt \in FrameTimes, j \in BOOLEAN, w \in BOOLEAN}

JumpFrame == \E in \in JumpInputs : frames < MaxFrames /\ Frame(in)

SpecJump == JumpInit /\ [][JumpFrame]_vars

\* ------------------------------------------------------------------------
\* The crowded specification: kicks and pushes of blocks that touch others
\* ------------------------------------------------------------------------

\* The seed blocks with two blocks added in Editing mode: one in the cell of
\* the static seed block at (0, 0.5, 3), whose box it overlaps, and one behind
\* the red seed block, whose box it touches.
CrowdedWorld ==
    AddBlock(AddBlock(SeedBlocks, Vec(0, placementHeight, 3000), 6),
             Vec(-5000, placementHeight, 7000), 7)

\* The player stands 3 units in front of the first added block, there and
\* 0.3 units to the side, or 3 units in front of the red seed block, grounded
\* and at rest, looking along +z.
CrashInit ==
    /\ running = TRUE
    /\ isPaused = FALSE
    /\ currentMode = "NORMAL_MODE"
    /\ cursorDisabled = TRUE
    /\ playerPosition \in {Vec(0, 2000, 0), Vec(300, 2000, 0), Vec(-5000, 2000, 2000)}
    /\ playerVelocity = Zero3
    /\ isGrounded = TRUE
    /\ cameraYaw = 0
    /\ cameraPitch = 0
    /\ kickCooldown = 0
    /\ editCameraPosition = Vec(0, editCameraHeight, 0)
    /\ blocks = CrowdedWorld
    /\ frames = 0
    /\ sinceKick = -1
    /\ obs = NoObs

\* The inputs of the crowded specification: those of the kick specification,
\* TAB, a left click on WORLD EDITING or on NORMAL MODE (an add under the
\* camera when the frame is an Editing one), a right and a middle click
\* with a pick ray that meets the ground 3 units towards +z, and a jump
\* while walking forward.
CrashInputs ==
    KickInputs \cup
    {[Idle EXCEPT !.dt = 250, !.space = TRUE, !.w = TRUE],
     [Idle EXCEPT !.dt = 100, !.tab = TRUE],
     [Idle EXCEPT !.dt = 100, !.left = TRUE, !.mouse = OnEdit],
     [Idle EXCEPT !.dt = 100, !.left = TRUE, !.mouse = OnNormal],
     [Idle EXCEPT !.dt = 100, !.right = TRUE, !.ray = Vec(0, -995, 100)],
     [Idle EXCEPT !.dt = 100, !.middle = TRUE, !.ray = Vec(0, -995, 100)]}

CrashFrame == \E in \in CrashInputs : frames < MaxFrames /\ Frame(in)

SpecCrash == CrashInit /\ [][CrashFrame]_vars

\* ------------------------------------------------------------------------
\* The editing specification: the user has chosen WORLD EDITING in the menu
\* ------------------------------------------------------------------------

\* The crowded world after a Normal-mode frame of a tenth of a second in
\* which the player, at (0, 2, 0) and looking along +z, kicked the block added
\* at (0, 1, 3): the static block under it sent it back to where it was, with
\* the velocity the bounce left it.
KickedWorld ==
    RemoveDestroyed(UpdateBlocks(KickLoop(CrowdedWorld, Vec(0, playerHeight, 0), Forward(0)),
                                 100))

\* The worlds the editing starts from: the seed blocks; the seed blocks
\* after one Normal-mode frame of a quarter of a second, in which every
\* dynamic block at rest hits the floor at 5 units/s and loses 10 health; and
\* the crowded world after the kick.
EditWorlds == {SeedBlocks, RemoveDestroyed(UpdateBlocks(SeedBlocks, 250)), KickedWorld}

\* The state after TAB and a click on WORLD EDITING, in the first frame or
\* after a Normal-mode frame and the frames that let the kick cooldown run
\* out: the player is where main() put it, grounded once a Normal-mode frame
\* has run; the cursor is released.
EditInit ==
    /\ running = TRUE
    /\ isPaused = FALSE
    /\ currentMode = "WORLD_EDITING_MODE"
    /\ cursorDisabled = FALSE
    /\ playerPosition = Vec(0, playerHeight, 0)
    /\ playerVelocity = Zero3
    /\ blocks \in EditWorlds
    /\ isGrounded = (blocks # SeedBlocks)
    /\ cameraYaw = 0
    /\ cameraPitch = 0
    /\ kickCooldown = 0
    /\ editCameraPosition = Vec(0, editCameraHeight, 0)
    /\ frames = 0
    /\ sinceKick = -1
    /\ obs = NoObs

\* Pick rays from the top-down camera: straight down, 5.7 degrees towards +z
\* (3 units away on the ground), and 13 degrees towards -x, +z (5 units away
\* on each axis).
EditRays == {Vec(0, -1000, 0), Vec(0, -995, 100), Vec(-162, -973, 162)}

\* The mouse buttons pressed in a frame, with the palette index drawn.
EditClicks ==
    {[left |-> TRUE, right |-> FALSE, middle |-> FALSE, color |-> 0],
     [left |-> TRUE, right |-> FALSE, middle |-> FALSE, color |-> 1],
     [left |-> FALSE, right |-> TRUE, middle |-> FALSE, color |-> 0],
     [left |-> FALSE, right |-> FALSE, middle |-> TRUE, color |-> 0],
     [left |-> TRUE, right |-> FALSE, middle |-> TRUE, color |-> 0],
     [left |-> TRUE, right |-> TRUE, middle |-> TRUE, color |-> 0]}

\* The inputs of the editing specification: a click through one of the rays,
\* a camera move with A or D, or nothing.
EditInputs ==
    {[Idle EXCEPT !.dt = 100, !.left = c.left, !.right = c.right, !.middle = c.middle,
                  !.color = c.color, !.ray = r] : c \in EditClicks, r \in EditRays}
    \cup {[Idle EXCEPT !.dt = 100, !.a = TRUE], [Idle EXCEPT !.dt = 100, !.d = TRUE],
          [Idle EXCEPT !.dt = 100]}

EditFrame == \E in \in EditInputs : frames < MaxFrames /\ Frame(in)

SpecEdit == EditInit /\ [][EditFrame]_vars

\* ------------------------------------------------------------------------
\* The pick specification: editing with a pick ray that may be horizontal
\* ------------------------------------------------------------------------

\* A pick ray with direction.y = 0, as main() may be handed one by
\* GetScreenToWorldRay: it never meets the plane y = 0.
HorizontalRay == Vec(1000, 0, 0)

\* The inputs of the editing specification, and a click of each button
\* through the horizontal ray.
PickInputs ==
    EditInputs \cup
    {[Idle EXCEPT !.dt = 100, !.left = TRUE, !.ray = HorizontalRay],
     [Idle EXCEPT !.dt = 100, !.right = TRUE, !.ray = HorizontalRay],
     [Idle EXCEPT !.dt = 100, !.middle = TRUE, !.ray = HorizontalRay]}

PickFrame == \E in \in PickInputs : frames < MaxFrames /\ Frame(in)

SpecPick == EditInit /\ [][PickFrame]_vars

\* ------------------------------------------------------------------------
\* The piled specification: blocks that overlap two others
\* ------------------------------------------------------------------------

\* The seed blocks after four clicks in Editing mode: a block added in the
\* cell of the static seed block at (0, 0.5, 3), one in the next cell at
\* (1, 1, 3), whose box overlaps both, one at (-10, 1, -4) next to the purple
\* static seed block, and that seed block toggled to dynamic.
PiledWorld ==
    ToggleStatic(
        AddBlock(AddBlock(AddBlock(SeedBlocks, Vec(0, placementHeight, 3000), 6),
                          Vec(1000, placementHeight, 3000), 2),
                 Vec(-10000, placementHeight, -4000), 7),
        Vec(-10000, placementHeight, -5000))

\* The player stands 3 units in front of the first or of the second added
\* block, grounded and at rest, looking along +z.
PileInit ==
    /\ running = TRUE
    /\ isPaused = FALSE
    /\ currentMode = "NORMAL_MODE"
    /\ cursorDisabled = TRUE
    /\ playerPosition \in {Vec(0, 2000, 0), Vec(1000, 2000, 0)}
    /\ playerVelocity = Zero3
    /\ isGrounded = TRUE
    /\ cameraYaw = 0
    /\ cameraPitch = 0
    /\ kickCooldown = 0
    /\ editCameraPosition = Vec(0, editCameraHeight, 0)
    /\ blocks = PiledWorld
    /\ frames = 0
    /\ sinceKick = -1
    /\ obs = NoObs

PileFrame == \E in \in KickInputs : frames < MaxFrames /\ Frame(in)

SpecPile == PileInit /\ [][PileFrame]_vars

\* ------------------------------------------------------------------------
\* The settling specification: the player stands by while blocks slow down
\* ------------------------------------------------------------------------

\* Frames run before the settling specification starts, and frames it runs.
SlideFrames == 60

SettleFrames == 12

\* The block physics and the prune pass of n frames of frame time dt.
RECURSIVE RunFrames(_, _, _)
RunFrames(bs, n, dt) ==
    IF n = 0 THEN bs
    ELSE CHOOSE last \in {RunFrames(next, n - 1, dt) :
                              next \in {RemoveDestroyed(UpdateBlocks(bs, dt))}} : TRUE

\* The seed blocks after a kick of the red one from 3 units south of it and
\* SlideFrames frames of a tenth of a second: the red block has landed and
\* slides along +z.
SlidingWorld ==
    RunFrames(KickLoop(SeedBlocks, Vec(-5000, playerHeight, 2000), Forward(0)),
              SlideFrames, 100)

\* The player stands where it kicked from, grounded and at rest; the world
\* is the crowded one one frame after the kick, with the kicked block sent
\* back onto the static block it overlaps, or the one with the sliding block.
SettleInit ==
    /\ running = TRUE
    /\ isPaused = FALSE
    /\ currentMode = "NORMAL_MODE"
    /\ cursorDisabled = TRUE
    /\ \/ playerPosition = Vec(0, 2000, 0) /\ blocks = KickedWorld
       \/ playerPosition = Vec(-5000, 2000, 2000) /\ blocks = SlidingWorld
    /\ playerVelocity = Zero3
    /\ isGrounded = TRUE
    /\ cameraYaw = 0
    /\ cameraPitch = 0
    /\ kickCooldown = 0
    /\ editCameraPosition = Vec(0, editCameraHeight, 0)
    /\ frames = 0
    /\ sinceKick = -1
    /\ obs = NoObs

\* A frame of the settling specification: a frame time, no key, no button.
SettleFrame == \E dt \in FrameTimes : frames < SettleFrames /\ Frame([Idle EXCEPT !.dt = dt])

\* A frame as the frame counter sees it: the steps that count a frame are
\* the steps of SettleFrame, and one is possible until SettleFrames have run.
SettleTick == frames < SettleFrames /\ frames' = frames + 1

\* The loop runs a frame after another as long as the window is open.
SpecSettle == SettleInit /\ [][SettleFrame]_vars /\ WF_frames(SettleTick)

\* ------------------------------------------------------------------------
\* Properties of the mode/pause state machine
\* ------------------------------------------------------------------------

\* The simulation state: what the player controller, the kick and the block
\* physics own.
simState == <<playerPosition, playerVelocity, isGrounded, cameraYaw, cameraPitch,
              kickCooldown, blocks>>

\* A step that runs a frame (CloseWindow runs none).
FrameStep == frames' = frames + 1

\* C1: in every frame that is paused after the TAB toggle, the player's
\* position, velocity, grounded flag, yaw and pitch, the kick cooldown and
\* the block list are the same after the frame as before it.
C1_PausedFrameChangesNoSimulationState ==
    [][FrameStep /\ obs'.paused => simState' = simState]_vars

\* A paused frame changes nothing of the simulation but the kick cooldown,
\* which goes on counting down.
PausedFrameChangesOnlyCooldown ==
    [][FrameStep /\ obs'.paused =>
          /\ <<playerPosition, playerVelocity, isGrounded, cameraYaw, cameraPitch, blocks>>'
               = <<playerPosition, playerVelocity, isGrounded, cameraYaw, cameraPitch, blocks>>
          /\ kickCooldown' = CooldownTick(kickCooldown, obs'.gap - sinceKick)]_vars

\* C2: at the end of every frame the cursor is captured if and only if the
\* game is in Normal mode and running.
C2_CursorCapturedIffNormalRunning ==
    cursorDisabled <=> (currentMode = "NORMAL_MODE" /\ ~isPaused)

\* C3: a TAB press flips the pause flag and never the mode; the mode changes
\* only by the Normal or Editing button of the menu of a paused frame; those
\* buttons and Continue leave the game running in the selected (or the
\* unchanged) mode; Exit ends the loop; a click on a button in a frame that
\* runs has no effect.
C3_ModePauseTransitions ==
    [][FrameStep =>
          /\ obs'.paused = (IF obs'.tab THEN ~isPaused ELSE isPaused)
          /\ (obs'.tab /\ ~(obs'.paused /\ obs'.click # "none")) =>
                 (isPaused' = ~isPaused /\ currentMode' = currentMode)
          /\ currentMode' # currentMode => obs'.paused /\ obs'.click \in {"normal", "edit"}
          /\ (obs'.paused /\ obs'.click = "normal") =>
                 (currentMode' = "NORMAL_MODE" /\ ~isPaused' /\ running')
          /\ (obs'.paused /\ obs'.click = "edit") =>
                 (currentMode' = "WORLD_EDITING_MODE" /\ ~isPaused' /\ running')
          /\ (obs'.paused /\ obs'.click = "continue") =>
                 (currentMode' = currentMode /\ ~isPaused' /\ running')
          /\ (obs'.paused /\ obs'.click = "exit") => ~running'
          /\ ~obs'.paused =>
                 (currentMode' = currentMode /\ isPaused' = obs'.paused /\ running')]_vars

\* A frame that ran unpaused had a left click on a menu button, and some
\* earlier selection had changed the mode.
C3_ClickWhileRunningInSelectedMode ==
    /\ ~obs.paused /\ obs.click # "none"
    /\ currentMode = "WORLD_EDITING_MODE" /\ ~isPaused /\ running

\* ------------------------------------------------------------------------
\* Properties of the player controller
\* ------------------------------------------------------------------------

\* C4: in every reachable state, the initial one included, the player is not
\* below groundLevel + playerHeight and is grounded if and only if it is
\* exactly there.
C4_GroundedIffOnFloor ==
    /\ playerPosition.y >= groundLevel + playerHeight
    /\ isGrounded <=> (playerPosition.y = groundLevel + playerHeight)

\* What holds of every state: the player is never below the floor, grounded
\* only on it, and on it without being grounded only as main() starts it,
\* before the first Normal-mode update.
GroundedIffOnFloorOnceUpdated ==
    /\ playerPosition.y >= groundLevel + playerHeight
    /\ isGrounded => playerPosition.y = groundLevel + playerHeight
    /\ (playerPosition.y = groundLevel + playerHeight /\ ~isGrounded) =>
           (playerPosition = Vec(0, 2000, 0) /\ playerVelocity = Zero3 /\ cameraYaw = 0
            /\ obs.update # "normal")

\* C5 as stated: after every frame, whatever the mode or the pause state, in
\* which none of W, A, S, D was held, the player's horizontal velocity is zero.
C5_NoMoveKeyNoHorizontalVelocity ==
    (frames > 0 /\ ~obs.moveKey) => (playerVelocity.x = 0 /\ playerVelocity.z = 0)

\* C5 as amended: after every frame that ran the Normal-mode update and in
\* which none of W, A, S, D was held, the player's horizontal velocity is zero.
C5_IdleNormalFrameStopsPlayer ==
    (obs.update = "normal" /\ ~obs.moveKey) =>
        (playerVelocity.x = 0 /\ playerVelocity.z = 0)

\* A Normal-mode frame without a movement key, of a player that had walked.
C5_StoppedAfterWalking ==
    /\ obs.update = "normal" /\ ~obs.moveKey
    /\ playerPosition.z > 0
    /\ playerVelocity.x = 0 /\ playerVelocity.z = 0

\* ------------------------------------------------------------------------
\* Properties of the kick
\* ------------------------------------------------------------------------

\* C6: the cooldown never exceeds 0.5 s; a kick press that finds the
\* cooldown above zero fires no kick (no kick loop runs, so no block's
\* velocity is set by it) and leaves the cooldown as it was; a kick that fires sets the
\* cooldown to 0.5 s, and the frame times run since the kick before it sum to
\* 0.5 s at least.
C6_KickCooldownGating ==
    /\ kickCooldown <= kickCooldownTime
    /\ [][FrameStep =>
             /\ kickCooldown' <= kickCooldownTime
             /\ (obs'.kickPressed /\ obs'.cooldown > 0) =>
                    /\ ~obs'.kick.fired
                    /\ kickCooldown' = obs'.cooldown
             /\ obs'.kick.fired =>
                    /\ kickCooldown' = kickCooldownTime
                    /\ obs'.gap >= 0 => obs'.gap >= kickCooldownTime]_vars

\* A second kick fired, the frame times since the first summing to 0.5 s.
C6_SecondKickFired == obs.kick.fired /\ obs.gap >= kickCooldownTime

\* A kick press of a Normal-mode frame was rejected by the cooldown.
KickPressRejected ==
    obs.update = "normal" /\ obs.kickPressed /\ obs.cooldown > 0 /\ ~obs.kick.fired

\* The horizontal distance from the player at pos to a block exceeds kickRange.
BeyondKickRange(block, pos) ==
    (block.position.x - pos.x) * (block.position.x - pos.x)
      + (block.position.z - pos.z) * (block.position.z - pos.z) > kickRange * kickRange

\* The dot product, in millionths, of the forward vector of yaw and the
\* normalized horizontal direction from pos to a block.
DotToBlock(block, pos, yaw) ==
    KickDot(Forward(yaw), Vector3Normalize(Vec(block.position.x - pos.x, 0,
                                               block.position.z - pos.z)))

\* C7: a kick leaves the velocity of every block farther than kickRange from
\* the player, and of every block whose dot product with the forward vector
\* is at most 0.5, as it was before the kick loop.
C7_KickSparesFarAndBehind ==
    obs.kick.fired =>
        \A i \in DOMAIN obs.kick.before :
            (\/ BeyondKickRange(obs.kick.before[i], obs.kick.pos)
             \/ DotToBlock(obs.kick.before[i], obs.kick.pos, cameraYaw) <= 500000) =>
                obs.kick.after[i].velocity = obs.kick.before[i].velocity

\* A kick fired and spared a block that is not static and within range, the
\* dot product being 0.5 exactly (the player looks 60 degrees off the block).
C7_SparedBlockNotInFront ==
    /\ obs.kick.fired
    /\ \E i \in DOMAIN obs.kick.before :
           /\ ~obs.kick.before[i].isStatic
           /\ ~BeyondKickRange(obs.kick.before[i], obs.kick.pos)
           /\ DotToBlock(obs.kick.before[i], obs.kick.pos, cameraYaw) = 500000
           /\ obs.kick.after[i].velocity = obs.kick.before[i].velocity

\* A kick fired and spared a block that is not static, in front of the
\* player and a thousandth of a unit out of range.
C7_SparedJustOutOfRange ==
    /\ obs.kick.fired
    /\ \E i \in DOMAIN obs.kick.before :
           /\ ~obs.kick.before[i].isStatic
           /\ BeyondKickRange(obs.kick.before[i], obs.kick.pos)
           /\ DotToBlock(obs.kick.before[i], obs.kick.pos, cameraYaw) > 500000
           /\ LengthSq(ToBlock(obs.kick.before[i], obs.kick.pos)) < 3002 * 3002
           /\ obs.kick.after[i].velocity = obs.kick.before[i].velocity

\* C8: a kick that fires gives every block that is not static, within
\* kickRange of the player and in front of it (dot > 0.5) the velocity
\* direction * kickForce horizontally and kickForce * 0.5 upwards, whatever
\* its velocity was, and that velocity is not zero; the block physics of the
\* same frame leaves the block with a velocity that is not zero.
C8_KickReplacesVelocity ==
    obs.kick.fired =>
        \A i \in DOMAIN obs.kick.before :
            (/\ ~obs.kick.before[i].isStatic
             /\ ~BeyondKickRange(obs.kick.before[i], obs.kick.pos)
             /\ DotToBlock(obs.kick.before[i], obs.kick.pos, cameraYaw) > 500000) =>
                /\ obs.kick.after[i].velocity =
                       Vec(FMul(Vector3Normalize(ToBlock(obs.kick.before[i], obs.kick.pos)).x,
                                kickForce),
                           kickForce \div 2,
                           FMul(Vector3Normalize(ToBlock(obs.kick.before[i], obs.kick.pos)).z,
                                kickForce))
                /\ obs.kick.after[i].velocity # Zero3
                /\ Len(blocks) = Len(obs.kick.before) => blocks[i].velocity # Zero3

\* A kick fired and replaced the velocity a push had given a block.
C8_KickedMovingBlock ==
    /\ obs.kick.fired
    /\ \E i \in DOMAIN obs.kick.before :
           /\ obs.kick.before[i].velocity # Zero3
           /\ obs.kick.after[i].velocity # obs.kick.before[i].velocity
           /\ obs.kick.after[i].velocity.y = kickForce \div 2

\* ------------------------------------------------------------------------
\* Properties of the editing operations
\* ------------------------------------------------------------------------

\* An Editing-mode frame observed with one mouse button pressed alone.
AddOnly(o) == o.update = "edit" /\ o.left /\ ~o.right /\ ~o.middle
RemoveOnly(o) == o.update = "edit" /\ o.right /\ ~o.left /\ ~o.middle

\* The blocks that stand in the grid cell of the snapped position p.
InCell(bs, p) ==
    {i \in DOMAIN bs : /\ IsFinite(bs[i].position)
                       /\ bs[i].position.x = p.x /\ bs[i].position.z = p.z}

\* C9: an add at the snapped position at which the frame before added leaves
\* the block list as that frame left it, and exactly one block stands in that
\* grid cell afterwards.
C9_AddTwiceOneBlockInCell ==
    [][(/\ AddOnly(obs) /\ AddOnly(obs')
        /\ IsFinite(obs.snapped) /\ obs'.snapped = obs.snapped) =>
           (/\ blocks' = blocks
            /\ Cardinality(InCell(blocks', obs'.snapped)) = 1)]_vars

\* The part of C9 that the program keeps: the second add changes nothing,
\* and exactly one block lies within epsilon of the snapped position.
AddTwiceIsAddOnce ==
    [][(/\ AddOnly(obs) /\ AddOnly(obs')
        /\ IsFinite(obs.snapped) /\ obs'.snapped = obs.snapped) =>
           (/\ blocks' = blocks
            /\ Cardinality(HitsAt(blocks', obs'.snapped)) = 1)]_vars

\* C10: a remove at a snapped position with no block within epsilon leaves
\* the block list as it was, size, order and fields; on the empty list the
\* remove yields the empty list.
C10_RemoveNothingIsNoOp ==
    [][obs'.update = "edit" =>
           (/\ RemoveBlock(<<>>, obs'.snapped) = <<>>
            /\ (RemoveOnly(obs') /\ ~BlockExists(blocks, obs'.snapped)) =>
                   blocks' = blocks)]_vars

\* A remove on an empty cell, after an add elsewhere had made the list
\* longer: the list kept its seven blocks.
C10_RemovedAtEmptyCell ==
    /\ RemoveOnly(obs)
    /\ ~BlockExists(blocks, obs.snapped)
    /\ Len(blocks) = Len(SeedBlocks) + 1

\* The number of operations of the frame observed that changed the list.
EditCount(o) ==
    (IF o.edits.add THEN 1 ELSE 0) + (IF o.edits.remove THEN 1 ELSE 0)
      + (IF o.edits.toggle THEN 1 ELSE 0)

\* The list after differs from the list before in one block at most: one
\* block appended, one erased, or one replaced.
AtMostOneBlockChanged(before, after) ==
    \/ after = before
    \/ Len(after) = Len(before) + 1 /\ SubSeq(after, 1, Len(before)) = before
    \/ \E i \in DOMAIN before : after = Erase(before, i)
    \/ /\ Len(after) = Len(before)
       /\ Cardinality({i \in DOMAIN before : after[i] # before[i]}) = 1

\* C11: in an Editing frame at most one of add, remove and toggle-static
\* fires, whatever buttons are pressed, and the frame changes one block of the
\* list at most.
C11_EditOpsMutuallyExclusive ==
    [][obs'.update = "edit" =>
           (EditCount(obs') <= 1 /\ AtMostOneBlockChanged(blocks, blocks'))]_vars

\* What the program keeps of C11: with one button pressed, one operation at
\* most fires, and every Editing frame changes one block at most.
OneButtonOneEdit ==
    [][obs'.update = "edit" =>
           (/\ AtMostOneBlockChanged(blocks, blocks')
            /\ (AddOnly(obs') \/ RemoveOnly(obs')) => EditCount(obs') <= 1)]_vars

\* An Editing-mode frame observed with the middle button pressed alone.
ToggleOnly(o) == o.update = "edit" /\ o.middle /\ ~o.left /\ ~o.right

\* The block b after a toggle of the block a: the tier flipped, health and
\* maxHealth at 1000 for a static block and at 100 for a dynamic one,
\* position, velocity and color kept.
IsToggled(a, b) ==
    /\ b.isStatic = ~a.isStatic
    /\ b.isStatic => (b.health = 1000000 /\ b.maxHealth = 1000000)
    /\ ~b.isStatic => (b.health = 100000 /\ b.maxHealth = 100000)
    /\ b.position = a.position /\ b.velocity = a.velocity /\ b.color = a.color

\* C12: a toggle at a snapped position with a block within epsilon flips
\* that block's isStatic and sets its health and maxHealth to 1000 (static)
\* or 100 (dynamic), whatever its health was; every other block stays as it
\* was.
C12_ToggleResetsHealth ==
    [][(ToggleOnly(obs') /\ BlockExists(blocks, obs'.snapped)) =>
           (/\ Len(blocks') = Len(blocks)
            /\ \E i \in HitsAt(blocks, obs'.snapped) :
                   /\ IsToggled(blocks[i], blocks'[i])
                   /\ \A j \in DOMAIN blocks : j # i => blocks'[j] = blocks[j])]_vars

\* A toggle made a damaged block static: the blocks around it have the 90
\* health the Normal-mode frame left them, the toggled one has 1000.
C12_ToggledDamagedBlock ==
    /\ ToggleOnly(obs) /\ obs.edits.toggle
    /\ \E i \in HitsAt(blocks, obs.snapped) :
           blocks[i].isStatic /\ blocks[i].health = staticHealth
    /\ \E j \in DOMAIN blocks : blocks[j].color = "BLUE" /\ blocks[j].health = 90000

\* ------------------------------------------------------------------------
\* Properties of the block physics
\* ------------------------------------------------------------------------

\* (impactSpeed - 3) * 5 for an impact above 3 units/s, nothing otherwise;
\* speedSq is the square of the speed.
DamageDue(speedSq, speed) ==
    IF speedSq > 3000 * 3000 THEN RDiv((speed - 3000) * 5000, 1000) ELSE 0

\* The ground contact of a block that has moved: landed has lost the damage
\* due to moved's vertical speed when moved is at or under the floor, and
\* nothing otherwise.
GroundDamageExact(moved, landed) ==
    landed.health =
        moved.health - (IF moved.position.y <= 1000
                        THEN DamageDue(moved.velocity.y * moved.velocity.y,
                                       Abs(moved.velocity.y))
                        ELSE 0)

\* The collision of block i, moved and landed, with block j: both lose the
\* damage due to the relative velocity rel, a static block j loses nothing.
PairDamageExact(bs, i, j, landed, rel, hit) ==
    /\ hit[i].health = landed.health - DamageDue(LengthSq(rel), Vector3Length(rel))
    /\ hit[j].health =
           bs[j].health - (IF bs[j].isStatic THEN 0
                           ELSE DamageDue(LengthSq(rel), Vector3Length(rel)))
    /\ \A k \in DOMAIN bs : (k # i /\ k # j) => hit[k].health = bs[k].health

PairsExact(bs, i, landed) ==
    \A j \in DOMAIN bs :
        (j # i /\ CheckCollisionBoxes(GetBlockBoundingBox(landed, blockSize),
                                      GetBlockBoundingBox(bs[j], blockSize))) =>
            PairDamageExact(bs, i, j, landed,
                            Vector3Subtract(landed.velocity, bs[j].velocity),
                            PairHit([bs EXCEPT ![i] = landed], i, j,
                                    PairDamage(landed, bs[j]), bs[i].position))

ImpactsExact(bs, i, moved, landed) ==
    /\ moved.health = bs[i].health
    /\ GroundDamageExact(moved, landed)
    /\ PairsExact(bs, i, landed)

\* Every block of the list is at rest.
AllAtRest(bs) == \A i \in DOMAIN bs : bs[i].velocity = Zero3

\* C13: an impact at or under damageThreshold takes no health from either
\* block, and one above it takes (impactSpeed - threshold) * damageMultiplier:
\* so for the ground contact and for every overlap of every dynamic block of
\* every state, at both frame times; and a Normal-mode frame without a kick
\* that finds and leaves all blocks at rest on the floor takes from each
\* dynamic block the damage due to the landing speed blockGravity * dt (none
\* at 0.1 s, 10 at 0.25 s) and nothing from a static one.
C13_DamageOnlyAboveThreshold ==
    [][/\ \A dt \in FrameTimes : \A i \in DOMAIN blocks :
              ~blocks[i].isStatic =>
                  ImpactsExact(blocks, i, Integrate(blocks[i], dt),
                               GroundCollide(Integrate(blocks[i], dt)))
       /\ (/\ obs'.update = "normal" /\ ~obs'.kick.fired
           /\ AllAtRest(blocks) /\ AllAtRest(blocks') /\ Len(blocks') = Len(blocks)) =>
              \A i \in DOMAIN blocks :
                  blocks'[i].health =
                      blocks[i].health
                        - (IF blocks[i].isStatic THEN 0
                           ELSE DamageDue((20 * obs'.dt) * (20 * obs'.dt), 20 * obs'.dt))
      ]_vars

\* A kicked block hit the block behind it: both lost the damage of the hit,
\* which is no multiple of 10, while a block elsewhere, landing at 2 units/s
\* in frames of 0.1 s, has all its health.
C13_HitAboveAndLandingsBelowThreshold ==
    /\ obs.update = "normal" /\ frames >= 2
    /\ \E i \in DOMAIN blocks :
           /\ blocks[i].color = "LIME" /\ blocks[i].health < dynamicHealth
           /\ blocks[i].health % 10000 # 0
    /\ \E i \in DOMAIN blocks : blocks[i].color = "BLUE" /\ blocks[i].health = dynamicHealth

\* A block with health above zero.
Alive(block) == block.health > 0

\* C14: after a Normal-mode frame the list is the list the block physics
\* left without its blocks of health <= 0: none of those is left, every
\* other block is there, in the order they had.
C14_PruneRemovesExactlyDestroyed ==
    obs.update = "normal" =>
        /\ blocks = SelectSeq(obs.unpruned, Alive)
        /\ \A i \in DOMAIN blocks : blocks[i].health > 0

\* The prune pass took out a block of negative health that stood before a
\* block that stays.
C14_PrunedNegativeHealth ==
    /\ obs.update = "normal"
    /\ Len(blocks) < Len(obs.unpruned)
    /\ \E i \in DOMAIN obs.unpruned : \E j \in DOMAIN obs.unpruned :
           i < j /\ obs.unpruned[i].health < 0 /\ obs.unpruned[j].health > 0

\* A static block.
IsStatic(block) == block.isStatic

\* C15: a Normal-mode frame leaves every static block as it was, position,
\* velocity and health: the kick loop and the block physics leave it at its
\* place in the list with every field, and the prune pass keeps it, so the
\* static blocks of the list after the frame are those before it, in order.
C15_StaticBlocksUntouched ==
    [][obs'.update = "normal" =>
           /\ \A i \in DOMAIN blocks :
                  blocks[i].isStatic =>
                      /\ obs'.unpruned[i] = blocks[i]
                      /\ obs'.kick.fired => obs'.kick.after[i] = blocks[i]
           /\ SelectSeq(blocks', IsStatic) = SelectSeq(blocks, IsStatic)]_vars

\* A kick fired with the static seed block in range and in front, and the
\* kicked block that overlaps it took the damage of the hit: the static
\* block is as main() made it.
C15_StaticBlockKickedAndHit ==
    /\ obs.update = "normal" /\ obs.kick.fired
    /\ \E i \in DOMAIN obs.kick.before :
           /\ obs.kick.before[i].color = "BROWN"
           /\ InKickRange(ToBlock(obs.kick.before[i], obs.kick.pos))
    /\ \E i \in DOMAIN blocks :
           blocks[i].color = "PINK" /\ blocks[i].health % 10000 # 0
    /\ \E i \in DOMAIN blocks : blocks[i] = SeedBlocks[6]

\* C16: every static block has the velocity (0, 0, 0).
C16_StaticBlocksAtRest ==
    \A i \in DOMAIN blocks : blocks[i].isStatic => blocks[i].velocity = Zero3

\* The blocks of a list with health <= 0.
Destroyed(bs) == {i \in DOMAIN bs : bs[i].health <= 0}

\* C17: a paused frame leaves the block list as it was; a Normal-mode frame
\* adds no block and takes out as many as the block physics left at health
\* <= 0; an Editing frame makes the list longer only by an add and shorter
\* only by a remove.
C17_BlockCountChanges ==
    [][/\ obs'.update = "none" => blocks' = blocks
       /\ obs'.update = "normal" =>
              /\ Len(obs'.unpruned) = Len(blocks)
              /\ Len(blocks') = Len(blocks) - Cardinality(Destroyed(obs'.unpruned))
       /\ obs'.update = "edit" =>
              /\ Len(blocks') > Len(blocks) => (obs'.edits.add /\ Len(blocks') = Len(blocks) + 1)
              /\ Len(blocks') < Len(blocks) =>
                     (obs'.edits.remove /\ Len(blocks') = Len(blocks) - 1)]_vars

\* A Normal-mode frame with one block fewer at its end, after a run in which
\* the list was never edited.
C17_CountFellByPrune ==
    /\ obs.update = "normal"
    /\ Cardinality(Destroyed(obs.unpruned)) = 1
    /\ Len(blocks) = Len(CrowdedWorld) - 1

\* An Editing frame that added a block, and a paused frame.
CountRoseByAdd == obs.update = "edit" /\ obs.edits.add /\ Len(blocks) = Len(CrowdedWorld) + 1
PausedFrameSeen == obs.update = "none" /\ frames >= 1

\* C18: at the end of every frame every block has 0 <= health <= maxHealth;
\* health <= 0 occurs only in the list the block physics hands to the prune
\* pass of the same frame.
C18_HealthInRange ==
    /\ \A i \in DOMAIN blocks :
           0 <= blocks[i].health /\ blocks[i].health <= blocks[i].maxHealth
    /\ \A i \in DOMAIN obs.unpruned : obs.unpruned[i].health <= obs.unpruned[i].maxHealth

\* What the prune pass gives beyond C18: no block is left at health 0.
HealthAboveZero == \A i \in DOMAIN blocks : blocks[i].health > 0

\* The block physics left a block at negative health, and the list at the
\* end of the frame has damaged blocks only within their range.
C18_NegativeHealthOnlyBeforePrune ==
    /\ obs.update = "normal"
    /\ \E i \in DOMAIN obs.unpruned : obs.unpruned[i].health < 0
    /\ \E i \in DOMAIN blocks : blocks[i].health < blocks[i].maxHealth

\* ------------------------------------------------------------------------
\* Properties of the pick
\* ------------------------------------------------------------------------

DegenerateRayRemovesNothing ==
    [][(obs'.update = "edit" /\ ~IsFinite(obs'.snapped) /\ ~obs'.left) =>
           blocks' = blocks]_vars

\* ------------------------------------------------------------------------
\* Properties of the jump
\* ------------------------------------------------------------------------

\* C20: a jump fires only in a Normal-mode frame with SPACE pressed and the
\* player grounded at its start, and leaves the player airborne with the
\* velocity jumpForce less the frame's gravity unless the ground clamp of the
\* same frame put it on the floor; only the ground clamp (the frame ends at
\* floor height) sets the grounded flag, so a clamp lies between any two
\* jumps; a press while airborne fires no jump: the vertical velocity only
\* loses the frame's gravity and the flag stays as it is, unless the clamp sets
\* both.
C20_NoDoubleJump ==
    [][/\ obs'.jumpFired => (obs'.jumpPressed /\ isGrounded)
       /\ (obs'.jumpFired /\ playerPosition'.y > 2000) =>
              (~isGrounded' /\ playerVelocity'.y = 8000 - 20 * obs'.dt)
       /\ (isGrounded' /\ (~isGrounded \/ obs'.jumpFired)) =>
              (/\ obs'.update = "normal"
               /\ playerPosition'.y = 2000 /\ playerVelocity'.y = 0)
       /\ (obs'.jumpPressed /\ ~isGrounded) =>
              /\ ~obs'.jumpFired
              /\ playerPosition'.y > 2000 =>
                     (~isGrounded' /\ playerVelocity'.y = playerVelocity.y - 20 * obs'.dt)
      ]_vars

\* SPACE pressed while the player was in the air after a jump: no jump
\* fired, the player is still in the air and falls.
C20_PressedInTheAir ==
    /\ obs.jumpPressed /\ ~obs.jumpFired
    /\ ~isGrounded /\ playerPosition.y > 2000
    /\ playerVelocity.y < jumpForce - 20 * obs.dt

\* A jump against a block: the collision put the player back, the ground
\* clamp grounded it in the frame of the jump.
JumpedAndClamped == obs.jumpFired /\ isGrounded /\ playerPosition.y = 2000

\* ------------------------------------------------------------------------
\* The player against the blocks
\* ------------------------------------------------------------------------

\* The player's box at pos meets the box of the block.
Intersects(pos, block) ==
    CheckCollisionBoxes(GetPlayerBoundingBox(pos, playerSize),
                        GetBlockBoundingBox(block, blockSize))

\* The blocks the collision loop c found in the player's box.
Hits(c) == {i \in DOMAIN c.before : Intersects(c.tentative, c.before[i])}

\* Where the player is when the loop reaches block i: at the tentative
\* position up to the first hit, back at the old position after it.
PlayerAt(c, i) == IF \E j \in Hits(c) : j < i THEN c.old ELSE c.tentative

\* The block is straight above or below the point from.
AboveOrBelow(block, from) ==
    block.position.x = from.x /\ block.position.z = from.z

\* v is horizontally of length pushForce, to three thousandths, and points
\* along d, to the rounding of its components.
PushedAlong(v, d) ==
    /\ Abs(Vector3Length(Vec(v.x, 0, v.z)) - pushForce) <= 3
    /\ v.x * d.x + v.z * d.z > 0
    /\ Abs(v.x * d.z - v.z * d.x) <= 3 * (Abs(d.x) + Abs(d.z))

\* C21: in a Normal running frame in which the player's box at the tentative
\* position meets the box of any block, static or not, the collision loop
\* leaves the player at the position the frame found it at, in all three
\* components, with zero horizontal velocity; and every non-static block it
\* met that is not straight above or below the player has a horizontal
\* velocity of magnitude pushForce that points from the player to the block.
C21_CollisionIsFullRejection ==
    (obs.update = "normal" /\ Hits(obs.collision) # {}) =>
        /\ obs.collision.position = obs.collision.old
        /\ obs.collision.velocity.x = 0
        /\ obs.collision.velocity.z = 0
        /\ \A i \in Hits(obs.collision) :
               (/\ ~obs.collision.before[i].isStatic
                /\ ~AboveOrBelow(obs.collision.before[i], PlayerAt(obs.collision, i))) =>
                   PushedAlong(obs.collision.blocks[i].velocity,
                               ToBlock(obs.collision.before[i], PlayerAt(obs.collision, i)))

\* A jump forward into two blocks at once, the static one first: the player
\* is back at the height it jumped from, and the other block is pushed from
\* the position the player was put back to, not from the tentative one.
C21_JumpedIntoTwoBlocks ==
    /\ obs.update = "normal" /\ obs.jumpFired
    /\ obs.collision.tentative.y > obs.collision.old.y
    /\ obs.collision.position = obs.collision.old
    /\ \E i, j \in Hits(obs.collision) :
           /\ i < j
           /\ obs.collision.before[i].isStatic
           /\ ~obs.collision.before[j].isStatic
           /\ PushedAlong(obs.collision.blocks[j].velocity,
                          ToBlock(obs.collision.before[j], obs.collision.old))
           /\ ~PushedAlong(obs.collision.blocks[j].velocity,
                           ToBlock(obs.collision.before[j], obs.collision.tentative))

\* ------------------------------------------------------------------------
\* The blocks against each other
\* ------------------------------------------------------------------------

\* The block list while block i of a Normal frame is updated: the blocks
\* before it have moved, the blocks after it have not.
DuringUpdate(o, i) ==
    [j \in DOMAIN o.unpruned |-> IF j < i THEN o.unpruned[j] ELSE o.collision.blocks[j]]

\* The box of block i after its integration and ground collision.
MovedBox(o, i) ==
    GetBlockBoundingBox(GroundCollide(Integrate(o.collision.blocks[i], o.dt)), blockSize)

\* The other blocks that box overlaps.
Overlapped(o, i) ==
    {j \in DOMAIN o.unpruned \ {i} :
        CheckCollisionBoxes(MovedBox(o, i),
                            GetBlockBoundingBox(DuringUpdate(o, i)[j], blockSize))}

\* v is post negated and halved, to the rounding; or zero where the deadzone
\* has stopped what was left.
NegatedAndHalved(v, post) ==
    \/ v = 0 /\ Abs(post) < 2 * deadzone
    \/ v * post < 0 /\ Abs(2 * v + post) <= 1

\* C22: whenever the box of a non-static block after its integration
\* overlaps one or more other blocks during its update, the block ends the
\* update at the position it had before the integration, and each horizontal
\* velocity component has the opposite sign to, and half the magnitude of,
\* its value after friction, however many blocks it overlaps.
C22_BounceNegatesAndHalves ==
    obs.update = "normal" =>
        \A i \in DOMAIN obs.unpruned :
            (~obs.collision.blocks[i].isStatic /\ Overlapped(obs, i) # {}) =>
                /\ obs.unpruned[i].position = obs.collision.blocks[i].position
                /\ NegatedAndHalved(obs.unpruned[i].velocity.x,
                                    FMul(obs.collision.blocks[i].velocity.x, friction))
                /\ NegatedAndHalved(obs.unpruned[i].velocity.z,
                                    FMul(obs.collision.blocks[i].velocity.z, friction))

\* The same for a block that overlaps exactly one other block.
BounceOffOneBlock ==
    obs.update = "normal" =>
        \A i \in DOMAIN obs.unpruned :
            (~obs.collision.blocks[i].isStatic /\ Cardinality(Overlapped(obs, i)) = 1) =>
                /\ obs.unpruned[i].position = obs.collision.blocks[i].position
                /\ NegatedAndHalved(obs.unpruned[i].velocity.x,
                                    FMul(obs.collision.blocks[i].velocity.x, friction))
                /\ NegatedAndHalved(obs.unpruned[i].velocity.z,
                                    FMul(obs.collision.blocks[i].velocity.z, friction))

\* A moving block that overlaps one other block has bounced.
BouncedOffOneBlock ==
    /\ obs.update = "normal"
    /\ \E i \in DOMAIN obs.unpruned :
           /\ ~obs.collision.blocks[i].isStatic
           /\ Cardinality(Overlapped(obs, i)) = 1
           /\ obs.collision.blocks[i].velocity.z > 2 * deadzone
           /\ obs.unpruned[i].velocity.z < 0

\* Every overlap puts the block back, whatever the number of blocks.
OverlapPutsBack ==
    obs.update = "normal" =>
        \A i \in DOMAIN obs.unpruned :
            (~obs.collision.blocks[i].isStatic /\ Overlapped(obs, i) # {}) =>
                obs.unpruned[i].position = obs.collision.blocks[i].position

\* ------------------------------------------------------------------------
\* The block floor
\* ------------------------------------------------------------------------

\* C24: at the end of every Normal running frame, every non-static block
\* still in the world has position.y >= 1.0, the block floor, in every
\* reachable world, those where a seed static block was toggled to dynamic
\* and blocks overlap included.
C24_BlocksStayOnOrAboveFloor ==
    obs.update = "normal" =>
        \A i \in DOMAIN blocks : ~blocks[i].isStatic => blocks[i].position.y >= blockFloor

\* The purple seed block, toggled to dynamic, was pulled below the floor by
\* the integration, clamped, found to overlap another block and put back;
\* it is still in the world, on the floor.
C24_ToggledSeedBlockOverlapping ==
    /\ obs.update = "normal"
    /\ \E i \in DOMAIN obs.unpruned :
           /\ obs.unpruned[i].color = "PURPLE"
           /\ ~obs.unpruned[i].isStatic
           /\ Integrate(obs.collision.blocks[i], obs.dt).position.y < blockFloor
           /\ Overlapped(obs, i) # {}
           /\ obs.unpruned[i].position.y = blockFloor
           /\ obs.unpruned[i].health > 0
    /\ \E k \in DOMAIN blocks : blocks[k].color = "PURPLE" /\ ~blocks[k].isStatic

\* In every state, not only after a Normal frame.
DynamicBlocksNeverBelowFloor ==
    \A i \in DOMAIN blocks : ~blocks[i].isStatic => blocks[i].position.y >= blockFloor

\* ------------------------------------------------------------------------
\* Blocks come to rest
\* ------------------------------------------------------------------------

\* No non-static block of the world moves horizontally.
HorizontallyAtRest ==
    \A i \in DOMAIN blocks :
        ~blocks[i].isStatic => (blocks[i].velocity.x = 0 /\ blocks[i].velocity.z = 0)

\* The last frame, if any, was a Normal running frame of positive frame time
\* in which no kick fired and the player's box met no block.
QuietFrame ==
    frames > 0 =>
        /\ obs.update = "normal"
        /\ obs.dt > 0
        /\ ~obs.kick.fired
        /\ Hits(obs.collision) = {}

\* C23: in a run of consecutive Normal running frames of positive frame time
\* in which no kick fires and the player touches no block, every non-static
\* block that stays in the world eventually has both horizontal velocity
\* components exactly zero, and they are exactly zero from then on.
C23_BlocksComeToRest == []QuietFrame => <>[]HorizontallyAtRest

\* The deadzone has stopped a block that moved along z and stays in the
\* world, and no block moves horizontally any more.
C23_DeadzoneStoppedBlock ==
    /\ obs.update = "normal"
    /\ HorizontallyAtRest
    /\ \E i \in DOMAIN obs.unpruned :
           /\ ~obs.unpruned[i].isStatic
           /\ obs.collision.blocks[i].velocity.z # 0
           /\ obs.unpruned[i].velocity.z = 0
           /\ obs.unpruned[i].health > 0

\* Every frame of the settling specification is a quiet one.
EveryFrameQuiet == QuietFrame

\* A quiet frame sets no block at rest in motion.
AtRestStaysAtRest == [][HorizontallyAtRest => HorizontallyAtRest']_vars

====
